---------------------------- MODULE Spec2Model ----------------------------
(***************************************************************************)
(* Model of misconfig-configpropertycrossvalidator (src/main.py).          *)
(*                                                                         *)
(* Spec   : one run of main() -- logging set-up, load_config,              *)
(*          load_compatibility_matrix, validate_config, reporting and the  *)
(*          two exception handlers, one action per step.                   *)
(* SpecV  : a direct call of validate_config on documents drawn from a     *)
(*          wider set, with the root logger as configured at import.       *)
(*                                                                         *)
(* Python values are records [t, n, s, items]: t is the Python type, n the *)
(* numeric value of a bool/int/float (the float n is n.0), s the text of a *)
(* str (one character in this model) and items the elements of a list.     *)
(* A parsed document is a record [t, s, items, entries]; entries is the    *)
(* insertion-ordered (key, value) sequence of a dict.  A text (a message,  *)
(* an issue, a printed line) is the sequence of the pieces its f-string    *)
(* joins.                                                                  *)
(***************************************************************************)
EXTENDS Integers, Sequences, FiniteSets, TLC

VARIABLES verbose, quiet, config_file, matrix_file,
          pc, logLevel, config_data, compatibility_matrix, issues, pending,
          stdout, stderr, exitCodes, calls

vars == <<verbose, quiet, config_file, matrix_file,
          pc, logLevel, config_data, compatibility_matrix, issues, pending,
          stdout, stderr, exitCodes, calls>>

(* Longest allowed-values list of a matrix property in SpecV. *)
MaxAllowed == 2

---------------------------------------------------------------------------
(* Python values *)

PyBool(b) == [t |-> "bool", n |-> b, s |-> "", items |-> <<>>]
PyInt(i) == [t |-> "int", n |-> i, s |-> "", items |-> <<>>]
PyFloat(i) == [t |-> "float", n |-> i, s |-> "", items |-> <<>>]
PyStr(c) == [t |-> "str", n |-> 0, s |-> c, items |-> <<>>]
PyNone == [t |-> "NoneType", n |-> 0, s |-> "", items |-> <<>>]
PyList(xs) == [t |-> "list", n |-> 0, s |-> "", items |-> xs]

NumericTypes == {"bool", "int", "float"}

(* x == y of Python: bool, int and float compare by numeric value; a str   *)
(* equals only a str with the same text; None equals only None.            *)
PyEq(x, y) ==
    IF x.t \in NumericTypes /\ y.t \in NumericTypes THEN x.n = y.n
    ELSE IF x.t = "str" /\ y.t = "str" THEN x.s = y.s
    ELSE IF x.t = "NoneType" /\ y.t = "NoneType" THEN TRUE
    ELSE FALSE

(* x in y for two str: substring; the model's strings have one character.  *)
IsSubstring(x, y) == x = y

(* str(v) of a scalar, repr(v) of a list element. *)
PyStrOf(v) ==
    CASE v.t = "bool" -> IF v.n = 1 THEN "True" ELSE "False"
      [] v.t = "int" -> ToString(v.n)
      [] v.t = "float" -> ToString(v.n) \o ".0"
      [] v.t = "str" -> v.s
      [] OTHER -> "None"

PyRepr(v) == IF v.t = "str" THEN "'" \o v.s \o "'" ELSE PyStrOf(v)

RECURSIVE JoinRepr(_)
JoinRepr(xs) ==
    IF xs = <<>> THEN ""
    ELSE IF Len(xs) = 1 THEN PyRepr(xs[1])
    ELSE PyRepr(xs[1]) \o ", " \o JoinRepr(Tail(xs))

(* The text an f-string puts for {v}. *)
PyFormat(v) == IF v.t = "list" THEN "[" \o JoinRepr(v.items) \o "]" ELSE PyStrOf(v)

---------------------------------------------------------------------------
(* Parsed documents *)

DictDoc(es) == [t |-> "dict", s |-> "", items |-> <<>>, entries |-> es]
ListDoc(xs) == [t |-> "list", s |-> "", items |-> xs, entries |-> <<>>]
StrDoc(c) == [t |-> "str", s |-> c, items |-> <<>>, entries |-> <<>>]
IntDoc == [t |-> "int", s |-> "", items |-> <<>>, entries |-> <<>>]
NoneDoc == [t |-> "NoneType", s |-> "", items |-> <<>>, entries |-> <<>>]

Entry(k, v) == [k |-> k, val |-> v]

Keys(doc) == {doc.entries[i].k : i \in 1..Len(doc.entries)}
ValueOf(doc, k) == (CHOOSE i \in 1..Len(doc.entries) : doc.entries[i].k = k)
ValueAt(doc, k) == doc.entries[ValueOf(doc, k)].val

---------------------------------------------------------------------------
(* validate_config *)

Returned(b) == [exc |-> "none", msg |-> <<>>, val |-> b]
Raised(e, m) == [exc |-> e, msg |-> m, val |-> FALSE]

(* x in xs for a list xs: some element equals x. *)
ListContains(xs, x) == \E i \in 1..Len(xs) : PyEq(xs[i], x)

(* property_name in config_data (line 82), for whatever was parsed. *)
PropertyInConfig(property_name, config) ==
    CASE config.t = "dict" -> Returned(property_name \in Keys(config))
      [] config.t = "str" -> Returned(IsSubstring(property_name, config.s))
      [] config.t = "list" -> Returned(ListContains(config.items, PyStr(property_name)))
      [] OTHER -> Raised("TypeError",
                   <<"argument of type '", config.t, "' is not iterable">>)

(* config_data[property_name] (line 83). *)
ConfigGetItem(config, property_name) ==
    IF config.t = "dict"
    THEN [exc |-> "none", msg |-> <<>>, val |-> ValueAt(config, property_name)]
    ELSE [exc |-> "TypeError",
          msg |-> IF config.t = "str"
                  THEN <<"string indices must be integers, not 'str'">>
                  ELSE <<"list indices must be integers or slices, not str">>,
          val |-> PyNone]

(* actual_value in expected_values (line 84). *)
ValueInExpected(actual_value, expected_values) ==
    CASE expected_values.t = "list" ->
           Returned(ListContains(expected_values.items, actual_value))
      [] expected_values.t = "str" ->
           IF actual_value.t = "str"
           THEN Returned(IsSubstring(actual_value.s, expected_values.s))
           ELSE Raised("TypeError",
                  <<"'in <string>' requires string as left operand, not ",
                    actual_value.t>>)
      [] OTHER -> Raised("TypeError",
                   <<"argument of type '", expected_values.t, "' is not iterable">>)

IncompatibleText(property_name, actual_value, expected_values) ==
    <<"Property '", property_name, "' has incompatible value '",
      PyFormat(actual_value), "'. Allowed values: ", PyFormat(expected_values)>>

MissingText(property_name) ==
    <<"Property '", property_name, "' is missing from the configuration.">>

LogRecord(level, text) == [src |-> "log", level |-> level, msg |-> text]

NoIssue == [exc |-> "none", msg |-> <<>>, issues |-> <<>>, logged |-> <<>>]
Failed(r) == [exc |-> r.exc, msg |-> r.msg, issues |-> <<>>, logged |-> <<>>]

(* Variant: the missing-property branch appends the issue without logging. *)
ValidateProperty_unlogged(config, property_name, expected_values) ==
    LET present == PropertyInConfig(property_name, config) IN
    IF present.exc # "none" THEN Failed(present)
    ELSE IF present.val
    THEN LET actual == ConfigGetItem(config, property_name) IN
         IF actual.exc # "none" THEN Failed(actual)
         ELSE LET member == ValueInExpected(actual.val, expected_values) IN
              IF member.exc # "none" THEN Failed(member)
              ELSE IF ~member.val
              THEN [NoIssue EXCEPT
                      !.issues = <<IncompatibleText(property_name, actual.val,
                                                    expected_values)>>,
                      !.logged = <<LogRecord("WARNING",
                                     IncompatibleText(property_name, actual.val,
                                                      expected_values))>>]
              ELSE NoIssue
    ELSE [NoIssue EXCEPT !.issues = <<MissingText(property_name)>>]

(* Variant: config_data[property_name] is read without the membership     *)
(* test of line 82, so a property missing from a dict raises KeyError.     *)
ValidateProperty_unguarded(config, property_name, expected_values) ==
    LET present == PropertyInConfig(property_name, config) IN
    IF present.exc # "none" THEN Failed(present)
    ELSE IF ~present.val
    THEN [NoIssue EXCEPT !.exc = "KeyError", !.msg = <<"'", property_name, "'">>]
    ELSE LET actual == ConfigGetItem(config, property_name) IN
         IF actual.exc # "none" THEN Failed(actual)
         ELSE LET member == ValueInExpected(actual.val, expected_values) IN
              IF member.exc # "none" THEN Failed(member)
              ELSE IF ~member.val
              THEN [NoIssue EXCEPT
                      !.issues = <<IncompatibleText(property_name, actual.val,
                                                    expected_values)>>,
                      !.logged = <<LogRecord("WARNING",
                                     IncompatibleText(property_name, actual.val,
                                                      expected_values))>>]
              ELSE NoIssue

(* Variant: a present property with a disallowed value is reported as      *)
(* incompatible and, by a missing else, as missing too.                    *)
ValidateProperty_twice(config, property_name, expected_values) ==
    LET present == PropertyInConfig(property_name, config) IN
    IF present.exc # "none" THEN Failed(present)
    ELSE IF present.val
    THEN LET actual == ConfigGetItem(config, property_name) IN
         IF actual.exc # "none" THEN Failed(actual)
         ELSE LET member == ValueInExpected(actual.val, expected_values) IN
              IF member.exc # "none" THEN Failed(member)
              ELSE IF ~member.val
              THEN [NoIssue EXCEPT
                      !.issues = <<IncompatibleText(property_name, actual.val,
                                                    expected_values),
                                   MissingText(property_name)>>,
                      !.logged = <<LogRecord("WARNING",
                                     IncompatibleText(property_name, actual.val,
                                                      expected_values)),
                                   LogRecord("WARNING", MissingText(property_name))>>]
              ELSE NoIssue
    ELSE [NoIssue EXCEPT
            !.issues = <<MissingText(property_name)>>,
            !.logged = <<LogRecord("WARNING", MissingText(property_name))>>]

(* One iteration of the loop of lines 81-89: the issues appended and the   *)
(* records passed to logging.warning, or the exception raised.             *)
ValidateProperty(config, property_name, expected_values) ==
    LET present == PropertyInConfig(property_name, config) IN
    IF present.exc # "none" THEN Failed(present)
    ELSE IF present.val
    THEN LET actual == ConfigGetItem(config, property_name) IN
         IF actual.exc # "none" THEN Failed(actual)
         ELSE LET member == ValueInExpected(actual.val, expected_values) IN
              IF member.exc # "none" THEN Failed(member)
              ELSE IF ~member.val
              THEN [NoIssue EXCEPT
                      !.issues = <<IncompatibleText(property_name, actual.val,
                                                    expected_values)>>,
                      !.logged = <<LogRecord("WARNING",
                                     IncompatibleText(property_name, actual.val,
                                                      expected_values))>>]
              ELSE NoIssue
    ELSE [NoIssue EXCEPT
            !.issues = <<MissingText(property_name)>>,
            !.logged = <<LogRecord("WARNING", MissingText(property_name))>>]

RECURSIVE ValidateLoop(_, _, _)
ValidateLoop(config, entries, acc) ==
    IF entries = <<>> THEN acc
    ELSE LET step == ValidateProperty(config, Head(entries).k, Head(entries).val) IN
         IF step.exc # "none"
         THEN [acc EXCEPT !.exc = step.exc, !.msg = step.msg]
         ELSE ValidateLoop(config, Tail(entries),
                 [acc EXCEPT !.issues = acc.issues \o step.issues,
                             !.logged = acc.logged \o step.logged])

(* validate_config: the issue list it returns (or the exception it raises) *)
(* and the records it has passed to logging.warning by then.               *)
validate_config(config, matrix) ==
    IF matrix.t # "dict"
    THEN [NoIssue EXCEPT
            !.exc = "AttributeError",
            !.msg = <<"'", matrix.t, "' object has no attribute 'items'">>]
    ELSE ValidateLoop(config, matrix.entries, NoIssue)

---------------------------------------------------------------------------
(* Files and loaders *)

(* What the parsers make of a file's text: json.load and yaml.safe_load. *)
Parsed(d) == [ok |-> TRUE, doc |-> d]
Unparsable == [ok |-> FALSE, doc |-> NoneDoc]

(* A path with its extension, what open() finds there ("ok", "missing",    *)
(* "denied", "oserror", or "undecodable": opens, but reading its bytes as  *)
(* text fails) and what each parser makes of its text.                     *)
File(ext, state, json, yaml) == [ext |-> ext, state |-> state, json |-> json, yaml |-> yaml]

Path(stem, file) == stem \o file.ext

(* str.lower() on the extensions of the model. *)
Lower(ext) ==
    CASE ext = ".JSON" -> ".json"
      [] ext = ".YAML" -> ".yaml"
      [] OTHER -> ext

LoadOk(d) == [exc |-> "none", msg |-> <<>>, doc |-> d]
LoadRaised(e, m) == [exc |-> e, msg |-> m, doc |-> NoneDoc]

(* load_config: open() first (line 32), then the dispatch on the lowered   *)
(* extension (lines 33-47); ConfigError passes the OSError handlers and a  *)
(* UnicodeDecodeError raised while reading is caught by none of them.      *)
load_config(file) ==
    LET path == Path("config", file) IN
    CASE file.state = "missing" ->
           LoadRaised("ConfigError", <<"Configuration file not found: ", path>>)
      [] file.state = "denied" ->
           LoadRaised("ConfigError",
             <<"Permission denied when trying to read configuration file: ", path>>)
      [] file.state = "oserror" ->
           LoadRaised("ConfigError",
             <<"OS error when opening file: ", path, ". ", "[Errno]">>)
      [] OTHER ->
           IF Lower(file.ext) = ".json"
           THEN IF file.state = "undecodable"
                THEN LoadRaised("UnicodeDecodeError", <<"can't decode byte">>)
                ELSE IF file.json.ok THEN LoadOk(file.json.doc)
                ELSE LoadRaised("ConfigError",
                       <<"Error decoding JSON in ", path, ": ", "Expecting value">>)
           ELSE IF Lower(file.ext) = ".yaml" \/ Lower(file.ext) = ".yml"
           THEN IF file.state = "undecodable"
                THEN LoadRaised("UnicodeDecodeError", <<"can't decode byte">>)
                ELSE IF file.yaml.ok THEN LoadOk(file.yaml.doc)
                ELSE LoadRaised("ConfigError",
                       <<"Error decoding YAML in ", path, ": ", "could not parse">>)
           ELSE LoadRaised("ConfigError",
                  <<"Unsupported file type.  Must be JSON or YAML.">>)

(* load_compatibility_matrix: always json.load, whatever the extension. *)
load_compatibility_matrix(file) ==
    LET path == Path("matrix", file) IN
    CASE file.state = "missing" ->
           LoadRaised("ConfigError", <<"Compatibility matrix file not found: ", path>>)
      [] file.state = "denied" ->
           LoadRaised("ConfigError",
             <<"Permission denied when trying to read compatibility matrix file: ", path>>)
      [] file.state = "oserror" ->
           LoadRaised("ConfigError",
             <<"OS error when opening compatibility matrix file: ", path, ". ", "[Errno]">>)
      [] file.state = "undecodable" ->
           LoadRaised("UnicodeDecodeError", <<"can't decode byte">>)
      [] OTHER ->
           IF file.json.ok THEN LoadOk(file.json.doc)
           ELSE LoadRaised("ConfigError",
                  <<"Error decoding JSON in compatibility matrix file: ", path, ". ",
                    "Expecting value">>)

---------------------------------------------------------------------------
(* Logging and output *)

(* The numeric levels of the logging module. *)
Severity(level) ==
    CASE level = "DEBUG" -> 10
      [] level = "INFO" -> 20
      [] level = "WARNING" -> 30
      [] OTHER -> 40

IsEnabled(level, r) == Severity(r.level) >= Severity(level)

(* The records the root logger's handler writes.  logging.basicConfig      *)
(* (line 9) gives it a StreamHandler with no stream, which is sys.stderr.  *)
Emit(level, records) == SelectSeq(records, LAMBDA r : IsEnabled(level, r))

Printed(text) == [src |-> "print", level |-> "", msg |-> text]

(* Variant: the quiet flag is tested before the verbose flag. *)
LevelFor_quietFirst(v, q) == IF q THEN "ERROR" ELSE IF v THEN "DEBUG" ELSE "INFO"

(* The level main leaves the root logger at (lines 99-104). *)
LevelFor(v, q) == IF v THEN "DEBUG" ELSE IF q THEN "ERROR" ELSE "INFO"

(* The debug record main logs after setting the level (lines 101, 104). *)
SetupRecords(v, q) ==
    IF v THEN <<LogRecord("DEBUG", <<"Verbose logging enabled.">>)>>
    ELSE IF q THEN <<LogRecord("DEBUG", <<"Suppressing output except for errors.">>)>>
    ELSE <<>>

HeaderLine == <<"Configuration issues found:">>
ConfirmationLine == <<"Configuration is valid according to the compatibility matrix.">>

(* Variant: --quiet silences the issue report as well. *)
ReportLines_quietAll(iss, q) ==
    IF q THEN <<>>
    ELSE IF iss # <<>>
    THEN <<HeaderLine>> \o [i \in 1..Len(iss) |-> <<"- ">> \o iss[i]]
    ELSE <<ConfirmationLine>>

(* What lines 111-119 print on stdout. *)
ReportLines(iss, q) ==
    IF iss # <<>>
    THEN <<HeaderLine>> \o [i \in 1..Len(iss) |-> <<"- ">> \o iss[i]]
    ELSE IF ~q THEN <<ConfirmationLine>> ELSE <<>>

(* Variant: the issue branch exits with the success code. *)
ReportExit_zero(iss) == 0

(* The code sys.exit is called with on lines 115 and 119. *)
ReportExit(iss) == IF iss # <<>> THEN 1 ELSE 0

---------------------------------------------------------------------------
(* Inputs *)

SeqsUpTo(S, n) == UNION {[1..k -> S] : k \in 0..n}

PropNames == {"a", "b"}

(* Insertion-ordered dicts: entry sequences with pairwise distinct keys. *)
OrderedDicts(names, vals) ==
    {DictDoc(es) : es \in
        {e \in SeqsUpTo([k : names, val : vals], Cardinality(names)) :
            \A i, j \in 1..Len(e) : e[i].k = e[j].k => i = j}}

(* Dicts over the property names, one representative per key set. *)
ConfigDicts(vals) ==
    {DictDoc(ea \o eb) :
        ea \in {<<>>} \cup {<<Entry("a", v)>> : v \in vals},
        eb \in {<<>>} \cup {<<Entry("b", v)>> : v \in vals}}

(* Direct calls of validate_config. *)
AllowedScalars == {PyBool(1), PyInt(1), PyStr("1")}
ConfigScalars == {PyBool(1), PyInt(1), PyFloat(1), PyStr("1"), PyInt(8)}
AllowedLists == {PyList(xs) : xs \in SeqsUpTo(AllowedScalars, MaxAllowed)}
ValidatorMatrices ==
    OrderedDicts(PropNames, AllowedLists \cup {PyInt(1), PyStr("1")})
        \cup {ListDoc(<<>>), NoneDoc}
ValidatorConfigs ==
    ConfigDicts(ConfigScalars)
        \cup {NoneDoc, IntDoc, StrDoc("a"), ListDoc(<<PyStr("a")>>)}

(* Runs of main. *)
MainMatrices ==
    OrderedDicts(PropNames, {PyList(<<>>), PyList(<<PyInt(1)>>)}) \cup {ListDoc(<<>>)}
MainConfigs == ConfigDicts({PyInt(1), PyStr("1")}) \cup {IntDoc}

JsonText(d) == [json |-> Parsed(d), yaml |-> Parsed(d)]
EmptyText == [json |-> Unparsable, yaml |-> Parsed(NoneDoc)]
GarbageText == [json |-> Unparsable, yaml |-> Unparsable]
YamlOnlyText(d) == [json |-> Unparsable, yaml |-> Parsed(d)]

FailStates == {"missing", "denied", "oserror", "undecodable"}
Extensions == {".json", ".YAML", ".yml", ".toml", ""}

ConfigTexts ==
    {JsonText(d) : d \in MainConfigs}
        \cup {EmptyText, GarbageText, YamlOnlyText(DictDoc(<<Entry("a", PyInt(1))>>))}
MatrixTexts ==
    {JsonText(d) : d \in MainMatrices}
        \cup {GarbageText,
              YamlOnlyText(DictDoc(<<Entry("a", PyList(<<PyInt(1)>>))>>))}

ConfigFiles ==
    {File(e, "ok", t.json, t.yaml) : e \in Extensions, t \in ConfigTexts}
        \cup {File(e, st, Unparsable, Unparsable) : e \in Extensions, st \in FailStates}
MatrixFiles ==
    {File(".json", "ok", t.json, t.yaml) : t \in MatrixTexts}
        \cup {File(".json", st, Unparsable, Unparsable) : st \in FailStates}

NoFile == File("", "missing", Unparsable, Unparsable)
NoException == [exc |-> "none", msg |-> <<>>]

---------------------------------------------------------------------------
(* main *)

Init ==
    /\ verbose \in BOOLEAN
    /\ quiet \in BOOLEAN
    /\ config_file \in ConfigFiles
    /\ matrix_file \in MatrixFiles
    /\ pc = "start"
    /\ logLevel = "INFO"
    /\ config_data = NoneDoc
    /\ compatibility_matrix = NoneDoc
    /\ issues = <<>>
    /\ pending = NoException
    /\ stdout = <<>>
    /\ stderr = <<>>
    /\ exitCodes = <<>>
    /\ calls = <<>>

(* Lines 99-104: the level is set, then the debug record is logged. *)
SetupLogging ==
    /\ pc = "start"
    /\ logLevel' = LevelFor(verbose, quiet)
    /\ stderr' = stderr \o Emit(LevelFor(verbose, quiet), SetupRecords(verbose, quiet))
    /\ pc' = "load_config"
    /\ UNCHANGED <<verbose, quiet, config_file, matrix_file, config_data,
                   compatibility_matrix, issues, pending, stdout, exitCodes, calls>>

(* Variant: a single handler, the catch-all, takes every exception. *)
HandlerFor_catchAll(exc) == "exception"

(* The except clause of main an exception reaches (lines 122, 126). *)
HandlerFor(exc) == IF exc = "ConfigError" THEN "config_error" ELSE "exception"

(* Variant: a failed load_config is swallowed and the run goes on. *)
LoadConfig_goesOn ==
    /\ pc = "load_config"
    /\ calls' = Append(calls, "load_config")
    /\ config_data' = load_config(config_file).doc
    /\ pc' = "load_matrix"
    /\ UNCHANGED <<verbose, quiet, config_file, matrix_file, logLevel, pending,
                   compatibility_matrix, issues, stdout, stderr, exitCodes>>

(* Line 106. *)
LoadConfig ==
    /\ pc = "load_config"
    /\ LET r == load_config(config_file) IN
       /\ calls' = Append(calls, "load_config")
       /\ IF r.exc = "none"
          THEN /\ config_data' = r.doc
               /\ pc' = "load_matrix"
               /\ UNCHANGED pending
          ELSE /\ pending' = [exc |-> r.exc, msg |-> r.msg]
               /\ pc' = HandlerFor(r.exc)
               /\ UNCHANGED config_data
    /\ UNCHANGED <<verbose, quiet, config_file, matrix_file, logLevel,
                   compatibility_matrix, issues, stdout, stderr, exitCodes>>

(* Line 107. *)
LoadMatrix ==
    /\ pc = "load_matrix"
    /\ LET r == load_compatibility_matrix(matrix_file) IN
       /\ calls' = Append(calls, "load_compatibility_matrix")
       /\ IF r.exc = "none"
          THEN /\ compatibility_matrix' = r.doc
               /\ pc' = "validate"
               /\ UNCHANGED pending
          ELSE /\ pending' = [exc |-> r.exc, msg |-> r.msg]
               /\ pc' = HandlerFor(r.exc)
               /\ UNCHANGED compatibility_matrix
    /\ UNCHANGED <<verbose, quiet, config_file, matrix_file, logLevel,
                   config_data, issues, stdout, stderr, exitCodes>>

(* Line 109: the call of validate_config, its warnings written as far as   *)
(* the logger's level lets them through.                                   *)
Validate ==
    /\ pc = "validate"
    /\ LET r == validate_config(config_data, compatibility_matrix) IN
       /\ calls' = Append(calls, "validate_config")
       /\ stderr' = stderr \o Emit(logLevel, r.logged)
       /\ IF r.exc = "none"
          THEN /\ issues' = r.issues
               /\ pc' = "report"
               /\ UNCHANGED pending
          ELSE /\ pending' = [exc |-> r.exc, msg |-> r.msg]
               /\ pc' = HandlerFor(r.exc)
               /\ UNCHANGED issues
    /\ UNCHANGED <<verbose, quiet, config_file, matrix_file, logLevel,
                   config_data, compatibility_matrix, stdout, exitCodes>>

(* Lines 111-119. *)
Report ==
    /\ pc = "report"
    /\ stdout' = stdout \o ReportLines(issues, quiet)
    /\ exitCodes' = Append(exitCodes, ReportExit(issues))
    /\ pc' = "done"
    /\ UNCHANGED <<verbose, quiet, config_file, matrix_file, logLevel, config_data,
                   compatibility_matrix, issues, pending, stderr, calls>>

(* Lines 122-125. *)
HandleConfigError ==
    /\ pc = "config_error"
    /\ stderr' = stderr
          \o Emit(logLevel, <<LogRecord("ERROR", <<"Configuration error: ">> \o pending.msg)>>)
          \o <<Printed(<<"Error: ">> \o pending.msg)>>
    /\ exitCodes' = Append(exitCodes, 1)
    /\ pc' = "done"
    /\ UNCHANGED <<verbose, quiet, config_file, matrix_file, logLevel, config_data,
                   compatibility_matrix, issues, pending, stdout, calls>>

(* Lines 126-129; logging.exception logs at ERROR and adds the traceback. *)
HandleException ==
    /\ pc = "exception"
    /\ stderr' = stderr
          \o Emit(logLevel, <<LogRecord("ERROR",
                  <<"An unexpected error occurred:", "Traceback", pending.exc>>)>>)
          \o <<Printed(<<"An unexpected error occurred: ">> \o pending.msg)>>
    /\ exitCodes' = Append(exitCodes, 1)
    /\ pc' = "done"
    /\ UNCHANGED <<verbose, quiet, config_file, matrix_file, logLevel, config_data,
                   compatibility_matrix, issues, pending, stdout, calls>>

Next ==
    \/ SetupLogging
    \/ LoadConfig
    \/ LoadMatrix
    \/ Validate
    \/ Report
    \/ HandleConfigError
    \/ HandleException

Spec == Init /\ [][Next]_vars

---------------------------------------------------------------------------
(* A direct call of validate_config, the root logger at the level line 9   *)
(* gives it.                                                               *)

InitV ==
    /\ verbose = FALSE
    /\ quiet = FALSE
    /\ config_file = NoFile
    /\ matrix_file = NoFile
    /\ pc = "validate"
    /\ logLevel = "INFO"
    /\ config_data \in ValidatorConfigs
    /\ compatibility_matrix \in ValidatorMatrices
    /\ issues = <<>>
    /\ pending = NoException
    /\ stdout = <<>>
    /\ stderr = <<>>
    /\ exitCodes = <<>>
    /\ calls = <<>>

NextV == Validate

SpecV == InitV /\ [][NextV]_vars

---------------------------------------------------------------------------
(* Properties *)

Range(f) == {f[i] : i \in 1..Len(f)}
Exited == pc = "done"
LoadsSucceed ==
    /\ load_config(config_file).exc = "none"
    /\ load_compatibility_matrix(matrix_file).exc = "none"
ValidationOf(cf, mf) ==
    validate_config(load_config(cf).doc, load_compatibility_matrix(mf).doc)
SupportedExtensions == {".json", ".yaml", ".yml"}

(* The texts of the WARNING records on the log stream, in order. *)
WarningTexts ==
    LET ws == SelectSeq(stderr, LAMBDA e : e.src = "log" /\ e.level = "WARNING")
    IN [i \in 1..Len(ws) |-> ws[i].msg]
(* The property each issue names, in order. *)
IssueProperties == [i \in 1..Len(issues) |-> issues[i][2]]
KeySeq(doc) == [i \in 1..Len(doc.entries) |-> doc.entries[i].k]
ValidateReturned ==
    /\ pc \in {"report", "done"}
    /\ pending.exc = "none"
    /\ calls # <<>>
    /\ calls[Len(calls)] = "validate_config"

(* Both documents are mappings and every allowed-values entry is a list. *)
WellFormed(config, matrix) ==
    /\ config.t = "dict"
    /\ matrix.t = "dict"
    /\ \A i \in 1..Len(matrix.entries) : matrix.entries[i].val.t = "list"

(* C1: a run exits exactly once, with code 0 if and only if both loads     *)
(* succeed and validate_config returns an empty issue list, and with code  *)
(* 1 in every other case. *)
C1_ExitCode ==
    /\ ~Exited => exitCodes = <<>>
    /\ Exited =>
         /\ Len(exitCodes) = 1
         /\ exitCodes[1] \in {0, 1}
         /\ exitCodes[1] = 0 <=>
              /\ LoadsSucceed
              /\ ValidationOf(config_file, matrix_file).exc = "none"
              /\ ValidationOf(config_file, matrix_file).issues = <<>>

C1_Witness ==
    /\ Exited
    /\ exitCodes = <<0>>
    /\ Keys(compatibility_matrix) = {"a", "b"}

(* The matrix properties validate_config has to report for a config. *)
Offending(config, matrix) ==
    {k \in Keys(matrix) :
        \/ k \notin Keys(config)
        \/ ~ListContains(ValueAt(matrix, k).items, ValueAt(config, k))}

(* C2: for a config mapping and a matrix mapping to allowed lists,         *)
(* validate_config returns one issue per matrix property that is missing   *)
(* or has a value outside its list, none twice, and none for a property    *)
(* the matrix does not name. *)
C2_OneIssuePerOffender ==
    (ValidateReturned /\ WellFormed(config_data, compatibility_matrix)) =>
        /\ Len(issues) = Cardinality(Offending(config_data, compatibility_matrix))
        /\ \A i, j \in 1..Len(issues) :
              IssueProperties[i] = IssueProperties[j] => i = j
        /\ Range(IssueProperties) = Offending(config_data, compatibility_matrix)
        /\ Range(IssueProperties) \subseteq Keys(compatibility_matrix)

C2_Witness ==
    /\ ValidateReturned
    /\ WellFormed(config_data, compatibility_matrix)
    /\ Keys(compatibility_matrix) = {"a"}
    /\ Keys(config_data) = {"a", "b"}
    /\ Len(issues) = 1

(* C3 as claimed: validate_config returns for every pair of documents the  *)
(* loaders can hand it. *)
C3_NeverFails ==
    (calls # <<>> /\ calls[Len(calls)] = "validate_config") => pending.exc = "none"

(* C3, amended: validate_config returns (never raises) when the config is  *)
(* a mapping and the matrix is a mapping whose allowed values are lists. *)
C3_ReturnsOnMappings ==
    (/\ calls # <<>>
     /\ calls[Len(calls)] = "validate_config"
     /\ WellFormed(config_data, compatibility_matrix)) =>
        /\ pending.exc = "none"
        /\ pc = "report"

C3_Witness ==
    /\ ValidateReturned
    /\ WellFormed(config_data, compatibility_matrix)
    /\ Keys(compatibility_matrix) = {"a", "b"}
    /\ Keys(config_data) = {"b"}
    /\ Len(issues) = 2

(* C4: the calls are load_config, load_compatibility_matrix,               *)
(* validate_config in that order, each made only once the one before it    *)
(* has returned; after a failed load nothing later is called and no issue  *)
(* is produced, logged or printed. *)
C4_LoadBeforeValidate ==
    /\ \E n \in 0..3 :
          calls = SubSeq(<<"load_config", "load_compatibility_matrix",
                           "validate_config">>, 1, n)
    /\ "load_compatibility_matrix" \in Range(calls) =>
          load_config(config_file).exc = "none"
    /\ "validate_config" \in Range(calls) => LoadsSucceed
    /\ ~LoadsSucceed => (issues = <<>> /\ stdout = <<>> /\ WarningTexts = <<>>)

C4_Witness ==
    /\ Exited
    /\ config_file.state = "ok"
    /\ load_config(config_file).exc = "ConfigError"
    /\ calls = <<"load_config">>
    /\ exitCodes = <<1>>

(* C5 as claimed: under every flag setting the log stream holds the        *)
(* returned issue texts, in the same order. *)
C5_LoggedAsReturned ==
    ValidateReturned => WarningTexts = issues

(* C5, amended: unless --quiet is given without --verbose, the log stream  *)
(* holds the returned issue texts in the same order, which is the order of *)
(* the matrix's property names; under --quiet alone the issues are         *)
(* returned in that order and none is written to the log stream. *)
C5_LoggedUnlessQuiet ==
    ValidateReturned =>
        /\ (verbose \/ ~quiet) => WarningTexts = issues
        /\ (quiet /\ ~verbose) => WarningTexts = <<>>
        /\ IssueProperties =
              SelectSeq(KeySeq(compatibility_matrix),
                        LAMBDA k : k \in Range(IssueProperties))

C5_Witness ==
    /\ ValidateReturned
    /\ ~quiet
    /\ IssueProperties = <<"b", "a">>
    /\ WarningTexts = issues

(* C6 as claimed: with both flags the log level and stdout are those of    *)
(* the run with --verbose alone. *)
C6_VerboseWins ==
    (Exited /\ verbose /\ quiet) =>
        /\ logLevel = LevelFor(TRUE, FALSE)
        /\ stdout = IF pending.exc = "none" THEN ReportLines(issues, FALSE) ELSE <<>>

(* C6, amended: with both flags the log level is DEBUG and the log stream  *)
(* and the issue report are those of --verbose alone, but --quiet still    *)
(* suppresses the success confirmation line. *)
C6_VerboseWinsButQuietConfirms ==
    (Exited /\ verbose /\ quiet) =>
        /\ logLevel = "DEBUG"
        /\ stderr # <<>>
        /\ stderr[1] = LogRecord("DEBUG", <<"Verbose logging enabled.">>)
        /\ pending.exc = "none" =>
              /\ WarningTexts = issues
              /\ issues # <<>> => stdout = ReportLines(issues, FALSE)
              /\ issues = <<>> => stdout = <<>>

C6_Witness ==
    /\ Exited
    /\ verbose
    /\ quiet
    /\ pending.exc = "none"
    /\ issues = <<>>
    /\ stdout = <<>>
    /\ exitCodes = <<0>>

(* C7 as claimed: a config path with an unsupported extension makes        *)
(* load_config fail with the unsupported-format error whatever the state   *)
(* of the file. *)
C7_UnsupportedWhateverTheFile ==
    (calls # <<>> /\ Lower(config_file.ext) \notin SupportedExtensions) =>
        /\ pending.exc = "ConfigError"
        /\ pending.msg = <<"Unsupported file type.  Must be JSON or YAML.">>

(* Same type and same value. *)
SameTypeEqual(x, y) == x.t = y.t /\ x.n = y.n /\ x.s = y.s

(* C8 as claimed: a matrix property present in the config is reported as   *)
(* incompatible unless an element of its allowed list has the type and the *)
(* value of the config's value. *)
C8_ExactTypeMembership ==
    (ValidateReturned /\ WellFormed(config_data, compatibility_matrix)) =>
        \A k \in Keys(compatibility_matrix) \cap Keys(config_data) :
            LET allowed == ValueAt(compatibility_matrix, k).items
                v == ValueAt(config_data, k)
            IN (k \in Range(IssueProperties)) <=>
                  ~\E j \in 1..Len(allowed) : SameTypeEqual(allowed[j], v)

ErrorReports == SelectSeq(stderr, LAMBDA e : e.src = "print" \/ e.level = "ERROR")
PrintedLines == SelectSeq(stderr, LAMBDA e : e.src = "print")
ErrorRecords == SelectSeq(stderr, LAMBDA e : e.src = "log" /\ e.level = "ERROR")
PrefixFor(exc) ==
    IF exc = "ConfigError" THEN "Error: " ELSE "An unexpected error occurred: "

(* C9 as claimed: a terminal failure is reported exactly once on stderr,   *)
(* with its prefix, and the process exits non-zero. *)
C9_ReportedOnceOnStderr ==
    (Exited /\ pending.exc # "none") =>
        /\ Len(ErrorReports) = 1
        /\ ErrorReports[1].msg = <<PrefixFor(pending.exc)>> \o pending.msg
        /\ exitCodes = <<1>>

(* C9, amended: a terminal failure is caught by main's handlers, logged    *)
(* once at ERROR level (a record the handler of line 9 writes to stderr    *)
(* under every flag setting) and then printed once on stderr with its      *)
(* prefix; the process exits with code 1, nothing is retried and nothing   *)
(* is printed on stdout. *)
C9_LoggedAndPrintedOnce ==
    /\ pc \in {"config_error", "exception"} => pending.exc # "none"
    /\ (pc = "config_error") = (pending.exc = "ConfigError" /\ ~Exited)
    /\ (Exited /\ pending.exc # "none") =>
          /\ Len(PrintedLines) = 1
          /\ PrintedLines[1].msg = <<PrefixFor(pending.exc)>> \o pending.msg
          /\ Len(ErrorRecords) = 1
          /\ stderr[Len(stderr)] = PrintedLines[1]
          /\ stderr[Len(stderr) - 1] = ErrorRecords[1]
          /\ exitCodes = <<1>>
          /\ stdout = <<>>
          /\ \A i, j \in 1..Len(calls) : calls[i] = calls[j] => i = j

C9_Witness ==
    /\ Exited
    /\ pending.exc = "AttributeError"
    /\ quiet
    /\ Len(stderr) = 2

(* C10: a run that reaches the report prints the header and one            *)
(* "- <issue>" line per issue, in order, whatever the flags, when there    *)
(* are issues; the confirmation line when there are none and --quiet is    *)
(* not set; and nothing otherwise. *)
C10_Stdout ==
    (Exited /\ "validate_config" \in Range(calls) /\ pending.exc = "none") =>
        /\ issues = ValidationOf(config_file, matrix_file).issues
        /\ issues # <<>> =>
              /\ Len(stdout) = Len(issues) + 1
              /\ stdout[1] = <<"Configuration issues found:">>
              /\ \A i \in 1..Len(issues) : stdout[i + 1] = <<"- ">> \o issues[i]
        /\ (issues = <<>> /\ ~quiet) =>
              stdout = <<<<"Configuration is valid according to the compatibility matrix.">>>>
        /\ (issues = <<>> /\ quiet) => stdout = <<>>

C10_Witness ==
    /\ Exited
    /\ quiet
    /\ ~verbose
    /\ Len(issues) = 2
    /\ Len(stdout) = 3

====
